---- MODULE Spec2Model ----
(***************************************************************************)
(* The build/serve pipeline of the frontend microservice.                  *)
(*                                                                         *)
(*   - Dockerfile: the two-stage image build (ARG/ENV, install, vite       *)
(*     build, copy of /app/dist into the nginx image) and the HEALTHCHECK. *)
(*   - src/App.tsx: the component that renders the API URL.                *)
(*   - DEPLOYMENT.md: the nginx location block (try_files), the /health    *)
(*     endpoint, the pipeline's publish step.                              *)
(***************************************************************************)
EXTENDS Naturals, Sequences, FiniteSets

\* ------------------------------------------------------------- bounds

\* Number of `docker build` invocations explored.
MaxBuilds == 2
\* Number of HTTP requests explored per container.
MaxRequests == 2
\* Number of health probes explored per container.
MaxProbes == 4

\* ------------------------------------------------------ program constants

\* HEALTHCHECK --retries=3
Retries == 3

\* ARG VITE_API_URL=https://api.prod.example.com
ArgDefault == "https://api.prod.example.com"

\* import.meta.env.VITE_API_URL || 'http://localhost:3000'
AppFallback == "http://localhost:3000"

\* An optional string is <<>> (absent / undefined) or <<s>>.
Absent == << >>

\* Values of --build-arg VITE_API_URL=... explored: not given, the empty
\* string, the documented dev endpoint, and strings that other languages
\* would treat as false.
BuildArgs == {Absent, <<"">>, <<"https://api.dev.example.com">>, <<"0">>}

\* Values of `docker run -e VITE_API_URL=...` explored.
RuntimeEnvs == {Absent, <<"https://api.runtime.example.com">>}

\* -------------------------------------------------------------- state

VARIABLES
    runs,       \* the `docker build` invocations so far, in order
    registry,   \* indices of the runs whose image has been pushed
    ctr,        \* the container started from one of the images
    seen,       \* <<path, response>> pairs the server has answered
    served      \* number of requests answered by the running container

vars == <<runs, registry, ctr, seen, served>>

\* ------------------------------------------------- build stage (vite)

\* A file of the bundle: its path below the document root and its contents.
File(path, kind, text, apiUrl, deps) ==
    [path |-> path, kind |-> kind, text |-> text, apiUrl |-> apiUrl, deps |-> deps]

IndexSegs == <<"index.html">>
JsSegs == <<"assets", "index.js">>
CssSegs == <<"assets", "index.css">>

\* A build whose floating dependency version no longer inlines the variable.
ViteBuildDepSensitive(envVal, deps) ==
    { File(IndexSegs, "html", "entry", Absent, 0),
      File(JsSegs, "js", "app", IF deps = 1 THEN envVal ELSE Absent, deps),
      File(CssSegs, "css", "style", Absent, 0) }

\* `vite build`: the entry document and the hashed assets below assets/.
\* import.meta.env.VITE_API_URL is replaced in the script by the value of
\* the process environment variable (undefined when it is not set); the
\* script also carries the dependency versions that were installed.
ViteBuild(envVal, deps) ==
    { File(IndexSegs, "html", "entry", Absent, 0),
      File(JsSegs, "js", "app", envVal, deps),
      File(CssSegs, "css", "style", Absent, 0) }

\* The ARG instruction without its default.
ArgValueNoDefault(buildArg) == buildArg

\* ARG VITE_API_URL=<default>: the --build-arg when given (even empty),
\* the default otherwise.
ArgValue(buildArg) ==
    IF buildArg = Absent THEN <<ArgDefault>> ELSE buildArg

\* ENV VITE_API_URL=$VITE_API_URL: the variable is set, to the expansion.
EnvValue(argVal) ==
    IF argVal = Absent THEN <<"">> ELSE argVal

\* const apiUrl = import.meta.env.VITE_API_URL || 'http://localhost:3000'
\* undefined and the empty string are the falsy values a string-valued
\* environment entry can take.
AppApiUrl(embedded) ==
    IF embedded = Absent \/ embedded = <<"">> THEN AppFallback ELSE embedded[1]

\* Dependency versions `npm ci` installs from the lockfile.
LockedDeps == 1
\* Dependency versions `npm install` may resolve without a lockfile.
FloatingDeps == {1, 2}

\* RUN if [ -f package-lock.json ]; then npm ci; else npm install; fi
InstallChoices(lock) ==
    IF lock THEN {LockedDeps} ELSE FloatingDeps

NewRun(buildArg, lock) ==
    [arg |-> buildArg, lock |-> lock, pc |-> "arg",
     argVal |-> Absent, envVal |-> Absent,
     deps |-> 0, compiled |-> FALSE, dist |-> {}, html |-> {}, image |-> FALSE]

\* ARG VITE_API_URL=https://api.prod.example.com
DoArg(r) == [r EXCEPT !.argVal = ArgValue(r.arg), !.pc = "env"]

\* ENV VITE_API_URL=$VITE_API_URL
DoEnv(r) == [r EXCEPT !.envVal = EnvValue(r.argVal), !.pc = "install"]

\* RUN npm ci / npm install, exit status 0: node_modules holds versions d.
DoInstall(r, d) == [r EXCEPT !.deps = d, !.pc = "compile"]

\* RUN npm run build, exit status 0: the bundle is in /app/dist.
DoCompile(r) ==
    [r EXCEPT !.compiled = TRUE, !.dist = ViteBuild(r.envVal, r.deps), !.pc = "stage2"]

\* A RUN step whose exit status is ignored (cmd || true): the next
\* instruction runs.
AfterFailureIgnored(r) ==
    [r EXCEPT !.pc = IF r.pc = "install" THEN "compile" ELSE "stage2"]

\* A RUN step that exits non-zero ends the build: no later instruction runs.
AfterFailure(r) == [r EXCEPT !.pc = "failed"]

\* What `npm run build` may leave in /app/dist when it exits non-zero:
\* nothing, or the assets without the entry document.
PartialOutputs(bundle) ==
    { {}, {f \in bundle : f.path # IndexSegs} }

\* FROM nginx:alpine AS production
\* COPY --from=build /app/dist /usr/share/nginx/html
\* (then nginx.conf, EXPOSE, HEALTHCHECK, CMD: the image is complete)
DoAssemble(r) == [r EXCEPT !.html = r.dist, !.image = TRUE, !.pc = "assembled"]

Cur == runs[Len(runs)]

Active ==
    Len(runs) > 0 /\ Cur.pc \notin {"assembled", "failed"}

SetCur(r) == [runs EXCEPT ![Len(runs)] = r]

\* docker build [--build-arg VITE_API_URL=...] .
StartBuild ==
    /\ Len(runs) < MaxBuilds
    /\ ~Active
    /\ \E a \in BuildArgs, lock \in BOOLEAN :
         runs' = Append(runs, NewRun(a, lock))
    /\ UNCHANGED <<registry, ctr, seen, served>>

StepArg ==
    /\ Active /\ Cur.pc = "arg"
    /\ runs' = SetCur(DoArg(Cur))
    /\ UNCHANGED <<registry, ctr, seen, served>>

StepEnv ==
    /\ Active /\ Cur.pc = "env"
    /\ runs' = SetCur(DoEnv(Cur))
    /\ UNCHANGED <<registry, ctr, seen, served>>

InstallOk ==
    /\ Active /\ Cur.pc = "install"
    /\ \E d \in InstallChoices(Cur.lock) :
         runs' = SetCur(DoInstall(Cur, d))
    /\ UNCHANGED <<registry, ctr, seen, served>>

\* RUN npm ci / npm install exits non-zero.
InstallFail ==
    /\ Active /\ Cur.pc = "install"
    /\ runs' = SetCur(AfterFailure(Cur))
    /\ UNCHANGED <<registry, ctr, seen, served>>

CompileOk ==
    /\ Active /\ Cur.pc = "compile"
    /\ runs' = SetCur(DoCompile(Cur))
    /\ UNCHANGED <<registry, ctr, seen, served>>

\* RUN npm run build exits non-zero.
CompileFail ==
    /\ Active /\ Cur.pc = "compile"
    /\ \E part \in PartialOutputs(ViteBuild(Cur.envVal, Cur.deps)) :
         runs' = SetCur(AfterFailure([Cur EXCEPT !.dist = part]))
    /\ UNCHANGED <<registry, ctr, seen, served>>

AssembleImage ==
    /\ Active /\ Cur.pc = "stage2"
    /\ runs' = SetCur(DoAssemble(Cur))
    /\ UNCHANGED <<registry, ctr, seen, served>>

\* Pipeline step 7, Build & Push: an image that was built is published.
Publish ==
    /\ \E i \in DOMAIN runs :
         /\ runs[i].image
         /\ i \notin registry
         /\ registry' = registry \cup {i}
    /\ UNCHANGED <<runs, ctr, seen, served>>

Build ==
    \/ StartBuild
    \/ StepArg
    \/ StepEnv
    \/ InstallOk
    \/ InstallFail
    \/ CompileOk
    \/ CompileFail
    \/ AssembleImage
    \/ Publish

\* ------------------------------------------------ serve stage (nginx)

\* A request path: its segments, and whether it ends in a slash.
Path(segs, slash) == [segs |-> segs, slash |-> slash]

RootPath == Path(<< >>, TRUE)
IndexPath == Path(IndexSegs, FALSE)
JsPath == Path(JsSegs, FALSE)
HealthPath == Path(<<"health">>, FALSE)

\* The GET paths explored: the root, the files of the bundle, the assets
\* directory with and without its slash, a client-side route, an asset
\* that does not exist, and the liveness path.
RequestPaths ==
    { RootPath, IndexPath, JsPath,
      Path(<<"assets">>, FALSE), Path(<<"assets">>, TRUE),
      Path(<<"about">>, FALSE), Path(<<"assets", "missing.js">>, FALSE),
      HealthPath }

IsFile(html, segs) == \E f \in html : f.path = segs

\* The document root itself always exists.
IsDir(html, segs) ==
    \/ segs = << >>
    \/ \E f \in html :
         /\ Len(f.path) > Len(segs)
         /\ SubSeq(f.path, 1, Len(segs)) = segs

FileAt(html, segs) == CHOOSE f \in html : f.path = segs

Response(status, body) == [status |-> status, body |-> body]

Generated(kind, text) == File(<< >>, kind, text, Absent, 0)

Forbidden == Response(403, Generated("html", "403 Forbidden"))
NotFound == Response(404, Generated("html", "404 Not Found"))
ServerError == Response(500, Generated("html", "500 Internal Server Error"))

\* curl http://localhost:8080/health  ->  healthy
HealthResponse == Response(200, Generated("plain", "healthy"))

\* What nginx sends once try_files has settled on an existing name: the file,
\* or for a directory its index.html, or 403 when the directory has none
\* (index index.html; autoindex off).
ServeStatic(html, p) ==
    IF ~p.slash
    THEN Response(200, FileAt(html, p.segs))
    ELSE IF IsFile(html, p.segs \o IndexSegs)
         THEN Response(200, FileAt(html, p.segs \o IndexSegs))
         ELSE Forbidden

\* The last parameter of try_files: an internal redirect to /index.html,
\* which the same location then finds as a file; when it is missing the
\* redirect cycles and nginx answers 500.
FallbackToIndex(html) ==
    IF IsFile(html, IndexSegs)
    THEN Response(200, FileAt(html, IndexSegs))
    ELSE ServerError

\* The location without the fallback parameter: a name that is neither a
\* file nor a directory is answered 404.
TryFilesNoFallback(html, p) ==
    IF (IF p.slash THEN IsDir(html, p.segs) ELSE IsFile(html, p.segs))
    THEN ServeStatic(html, p)
    ELSE IF IsDir(html, p.segs)
         THEN ServeStatic(html, Path(p.segs, TRUE))
         ELSE NotFound

\* The location answering every path with the entry document.
TryFilesAlwaysIndex(html, p) == FallbackToIndex(html)

\* The location behind a request limit: once a request has been served,
\* every later one is answered 503.
TryFilesRateLimited(html, p) ==
    IF served >= 1
    THEN Response(503, Generated("html", "503 Service Temporarily Unavailable"))
    ELSE IF (IF p.slash THEN IsDir(html, p.segs) ELSE IsFile(html, p.segs))
         THEN ServeStatic(html, p)
         ELSE IF IsDir(html, p.segs)
              THEN ServeStatic(html, Path(p.segs, TRUE))
              ELSE FallbackToIndex(html)

\* location / { try_files $uri $uri/ /index.html; }
\* $uri matches a file (a directory when the path ends in a slash), $uri/
\* matches a directory, and the last parameter is the fallback.
TryFiles(html, p) ==
    IF (IF p.slash THEN IsDir(html, p.segs) ELSE IsFile(html, p.segs))
    THEN ServeStatic(html, p)
    ELSE IF IsDir(html, p.segs)
         THEN ServeStatic(html, Path(p.segs, TRUE))
         ELSE FallbackToIndex(html)

\* The server without a location for the liveness path.
NginxRespondNoHealth(html, p) == TryFiles(html, p)

\* The server block: the liveness location answers /health, location /
\* answers every other path.
NginxRespond(html, p) ==
    IF p = HealthPath THEN HealthResponse ELSE TryFiles(html, p)

\* ------------------------------------------------ container lifecycle

\* The container that does not exist yet.
NoContainer ==
    [state |-> "none", image |-> 0, env |-> Absent, listening |-> FALSE,
     health |-> "none", streak |-> 0, inStart |-> FALSE,
     recent |-> << >>, probes |-> 0]

\* Document root of the running container's image.
Html == runs[ctr.image].html

\* docker run -p 8080:80 [-e VITE_API_URL=...] frontend-microservice
\* (again after a stop: the container is recreated, its health starts over)
RunContainer ==
    /\ ctr.state \in {"none", "exited"}
    /\ \E i \in DOMAIN runs, e \in RuntimeEnvs :
         /\ runs[i].image
         /\ ctr' = [NoContainer EXCEPT !.state = "running", !.image = i, !.env = e,
                                       !.health = "starting", !.inStart = TRUE,
                                       !.probes = ctr.probes]
    /\ UNCHANGED <<runs, registry, seen, served>>

\* CMD ["nginx", "-g", "daemon off;"]: nginx binds port 80.
NginxListen ==
    /\ ctr.state = "running" /\ ~ctr.listening
    /\ ctr' = [ctr EXCEPT !.listening = TRUE]
    /\ UNCHANGED <<runs, registry, seen, served>>

\* nginx is the container's main process: when it stops, the container exits.
StopContainer ==
    /\ ctr.state = "running"
    /\ ctr' = [ctr EXCEPT !.state = "exited", !.listening = FALSE]
    /\ UNCHANGED <<runs, registry, seen, served>>

\* A GET answered by the running server.
Request ==
    /\ ctr.state = "running" /\ ctr.listening
    /\ served < MaxRequests
    /\ \E p \in RequestPaths :
         seen' = seen \cup {<<p, NginxRespond(Html, p)>>}
    /\ served' = served + 1
    /\ UNCHANGED <<runs, registry, ctr>>

\* HEALTHCHECK ... CMD wget --no-verbose --tries=1 --spider
\*     http://localhost/health || exit 1
\* The status the probe gets: 0 when nothing answers within --timeout=3s.
ProbeStatus(timedOut) ==
    IF ctr.listening /\ ~timedOut
    THEN NginxRespond(Html, HealthPath).status
    ELSE 0

\* The last Retries probe results, newest last.
Remember(recent, status) ==
    LET all == Append(recent, status)
    IN  IF Len(all) > Retries THEN SubSeq(all, Len(all) - Retries + 1, Len(all)) ELSE all

\* The health state counting every failed probe, consecutive or not.
HandleProbeNoReset(c, ok) ==
    IF ok
    THEN [c EXCEPT !.health = IF c.streak >= Retries THEN "unhealthy" ELSE "healthy"]
    ELSE IF c.health = "starting" /\ c.inStart
         THEN c
         ELSE [c EXCEPT !.streak = c.streak + 1,
                        !.health = IF c.streak + 1 >= Retries THEN "unhealthy" ELSE c.health]

\* HEALTHCHECK --start-period=5s --retries=3: a successful probe makes the
\* container healthy and clears the failing streak; a failed one counts
\* unless the container is still starting within the start period, and the
\* container is unhealthy once the streak reaches the retries.
HandleProbe(c, ok) ==
    IF ok
    THEN [c EXCEPT !.streak = 0, !.health = "healthy"]
    ELSE IF c.health = "starting" /\ c.inStart
         THEN c
         ELSE [c EXCEPT !.streak = c.streak + 1,
                        !.health = IF c.streak + 1 >= Retries THEN "unhealthy" ELSE c.health]

\* HEALTHCHECK --interval=30s: one probe of the running container.
Probe ==
    /\ ctr.state = "running"
    /\ ctr.probes < MaxProbes
    /\ \E timedOut \in BOOLEAN :
         LET status == ProbeStatus(timedOut)
             c == HandleProbe(ctr, status = 200)
         IN  ctr' = [c EXCEPT !.recent = Remember(ctr.recent, status),
                              !.probes = ctr.probes + 1]
    /\ UNCHANGED <<runs, registry, seen, served>>

\* HEALTHCHECK --start-period=5s: the start period is over.
StartPeriodEnds ==
    /\ ctr.state = "running" /\ ctr.inStart
    /\ ctr' = [ctr EXCEPT !.inStart = FALSE]
    /\ UNCHANGED <<runs, registry, seen, served>>

\* What the page shows: the browser loads the script of the bundle and App
\* renders <code>{apiUrl}</code> from the value compiled into it.
AppRender(js) == AppApiUrl(js.apiUrl)

\* App reading the variable from the container's environment instead.
DisplayedFromRuntimeEnv(i) ==
    IF ctr.state # "none" /\ ctr.image = i
    THEN AppApiUrl(ctr.env)
    ELSE AppRender(FileAt(runs[i].html, JsSegs))

\* The API URL shown by the application served from image i.
Displayed(i) == AppRender(NginxRespond(runs[i].html, JsPath).body)

Serve ==
    \/ RunContainer
    \/ NginxListen
    \/ StartPeriodEnds
    \/ Probe
    \/ StopContainer
    \/ Request

\* The runs of the Dockerfile that end with an image.
AssembledRuns ==
    UNION { { DoAssemble(DoCompile(DoInstall(DoEnv(DoArg(NewRun(a, l))), d)))
              : d \in InstallChoices(l) }
            : a \in BuildArgs, l \in BOOLEAN }

Init ==
    /\ runs = << >>
    /\ registry = {}
    /\ ctr = NoContainer
    /\ seen = {}
    /\ served = 0

Next == Build

\* The build pipeline: any number of docker builds, one after the other.
Spec == Init /\ [][Next]_vars

\* The serve stage: a container of one image the pipeline has built.
ServeInit ==
    /\ runs \in { <<r>> : r \in AssembledRuns }
    /\ registry = {}
    /\ ctr = NoContainer
    /\ seen = {}
    /\ served = 0

ServeNext == Serve

ServeSpec == ServeInit /\ [][ServeNext]_vars

\* ------------------------------------------------------------- claims

Images == {i \in DOMAIN runs : runs[i].image}

\* C1 (as stated): whatever string is given as --build-arg VITE_API_URL,
\* the empty string included, the page of the built image shows exactly
\* that string.
C1_DisplayedIsSupplied ==
    \A i \in Images :
        runs[i].arg # Absent => Displayed(i) = runs[i].arg[1]

\* C2: a docker build without --build-arg VITE_API_URL yields an image
\* whose page shows https://api.prod.example.com, and every stage on the
\* way (ARG, ENV, the compiled script) holds that same value.
C2_DefaultIsProd ==
    \A i \in DOMAIN runs :
        runs[i].arg = Absent =>
            /\ runs[i].pc \notin {"arg"} => runs[i].argVal = <<"https://api.prod.example.com">>
            /\ runs[i].pc \notin {"arg", "env"} => runs[i].envVal = <<"https://api.prod.example.com">>
            /\ runs[i].compiled =>
                 \A f \in runs[i].dist :
                     f.kind = "js" => f.apiUrl = <<"https://api.prod.example.com">>
            /\ runs[i].image => Displayed(i) = "https://api.prod.example.com"

C2_Witness ==
    \E i \in Images :
        /\ runs[i].arg = Absent
        /\ Displayed(i) = "https://api.prod.example.com"

\* C6: an image exists only after install and then compile have both
\* succeeded, and it holds the complete bundle; a failed build has no
\* image, nothing of its partial output in the serve stage, is never
\* published, and none of its steps runs again.
C6_State ==
    \A i \in DOMAIN runs :
        /\ runs[i].image =>
             /\ runs[i].pc = "assembled"
             /\ runs[i].deps # 0
             /\ runs[i].compiled
             /\ runs[i].html = ViteBuild(runs[i].envVal, runs[i].deps)
        /\ runs[i].compiled => runs[i].deps # 0
        /\ runs[i].pc = "failed" =>
             /\ ~runs[i].image
             /\ runs[i].html = {}
             /\ ~(runs[i].deps # 0 /\ runs[i].compiled)
        /\ i \in registry => runs[i].image

C6_NoRetry ==
    \A i \in DOMAIN runs :
        runs[i].pc = "failed" => (i \in DOMAIN runs' /\ runs'[i] = runs[i])

C6_FailedBuildAborts == [](C6_State) /\ [][C6_NoRetry]_vars

C6_Witness ==
    /\ \E i \in DOMAIN runs :
         /\ runs[i].pc = "failed"
         /\ runs[i].deps # 0
         /\ runs[i].dist # {}
    /\ \E j \in DOMAIN runs : runs[j].pc = "failed" /\ runs[j].deps = 0
    /\ Len(runs) = MaxBuilds

\* C9: two images built from the same source tree with the same
\* --build-arg show the same API URL, even when their bundles differ.
C9_RebuildSameValue ==
    \A i, j \in Images :
        (runs[i].arg = runs[j].arg /\ runs[i].lock = runs[j].lock)
            => Displayed(i) = Displayed(j)

C9_Witness ==
    \E i, j \in Images :
        /\ i # j
        /\ runs[i].arg = runs[j].arg
        /\ runs[i].lock = runs[j].lock
        /\ runs[i].html # runs[j].html
        /\ Displayed(i) = Displayed(j)

EntryDocument == Response(200, FileAt(Html, IndexSegs))

\* C3 (as stated): every requested path that is not a file of the bundle
\* is answered with the entry document.
C3_NonFileGetsEntry ==
    \A e \in seen :
        ~(~e[1].slash /\ IsFile(Html, e[1].segs)) => e[2] = EntryDocument

\* C3 (amended): every requested path other than /health that is neither a
\* file nor a directory of the bundle is answered 200 with the entry
\* document, and so is the root; no request is answered 404.
C3_FallbackToEntry ==
    \A e \in seen :
        /\ e[2].status # 404
        /\ e[1] = RootPath => e[2] = EntryDocument
        /\ (e[1] # HealthPath /\ ~IsFile(Html, e[1].segs) /\ ~IsDir(Html, e[1].segs))
               => e[2] = EntryDocument

C3_Witness ==
    /\ \E e \in seen : e[1] = Path(<<"about">>, FALSE) /\ e[2].body.path = IndexSegs
    /\ \E e \in seen :
         e[1] = Path(<<"assets", "missing.js">>, FALSE) /\ e[2].body.path = IndexSegs

\* C4: every requested path that is a file of the bundle is answered 200
\* with that file, as the build wrote it.
C4_FileServedUnchanged ==
    \A e \in seen :
        (~e[1].slash /\ IsFile(Html, e[1].segs)) =>
            /\ e[2].status = 200
            /\ e[2].body \in runs[ctr.image].dist
            /\ e[2].body.path = e[1].segs

C4_Witness ==
    \E e \in seen :
        /\ e[1] = JsPath
        /\ e[2].body.kind = "js"
        /\ e[2].body.apiUrl = runs[ctr.image].envVal

\* C5: while the server is running, /health is answered 200 "healthy",
\* whatever the bundle and whatever was requested before, and not with
\* the entry document or any file of the bundle.
C5_HealthAlwaysHealthy ==
    /\ \A e \in seen :
         e[1] = HealthPath =>
             /\ e[2].status = 200
             /\ e[2].body.kind = "plain"
             /\ e[2].body.text = "healthy"
             /\ e[2].body \notin Html
    /\ (ctr.state = "running" /\ ctr.listening) =>
           NginxRespond(Html, HealthPath).status = 200

C5_Witness ==
    /\ served = MaxRequests
    /\ Cardinality(seen) = MaxRequests
    /\ \E e \in seen : e[1] = HealthPath /\ e[2].body.text = "healthy"
    /\ ~IsFile(Html, HealthPath.segs)

\* C7: no action of the serve stage (starting or recreating the container
\* with any VITE_API_URL in its environment, serving requests, probing)
\* changes the bundle of an image or the API URL its page shows.
C7_Frozen ==
    \A i \in Images :
        /\ i \in DOMAIN runs'
        /\ runs'[i].html = runs[i].html
        /\ Displayed(i)' = Displayed(i)

C7_EmbeddedNeverChanges == [][C7_Frozen]_vars

C7_Witness ==
    /\ ctr.state = "running" /\ ctr.listening
    /\ ctr.env # Absent
    /\ served >= 1
    /\ Displayed(ctr.image) # ctr.env[1]
    /\ Displayed(ctr.image) = AppApiUrl(runs[ctr.image].envVal)

====
